---- MODULE Spec2Model ----
(***************************************************************************)
(* Mad Hat Maven orchestration engine: the two SSE endpoints of server.js  *)
(* (/api/run, /api/resume), the CLI of index.js, the four stage functions  *)
(* and the retrying callClaude of steps/claude-client.js.                  *)
(*                                                                         *)
(* One handler invocation ("run") is a sequence of atomic steps, one per   *)
(* stretch of JavaScript between two awaits.  Timers, client disconnects   *)
(* and upstream replies are separate steps that interleave with them.      *)
(***************************************************************************)
EXTENDS Integers, Sequences, FiniteSets, TLC

(***************************************************************************)
(* Bounds of the model                                                     *)
(***************************************************************************)
\* heartbeat ticks observed per run
MaxBeats == 1
\* calendar days the clock may reach
MaxDay == 2

(***************************************************************************)
(* Program constants                                                       *)
(***************************************************************************)
APP_RETRIES == 2
RETRY_DELAY_MS == 10000
\* err.status of the "overloaded" upstream answer
OVERLOADED_STATUS == 529
\* res.status(400)
BAD_REQUEST == 400

\* Handler invocations followed.  Runs keep their state in locals and share
\* only the file system.
Runs == {1}
Stages == 1..4

(***************************************************************************)
(* JavaScript values.  A string is a sequence of tokens (characters for    *)
(* client names, opaque words elsewhere); undefined and a non-string JSON  *)
(* value (a number) are the other values a request body field can hold.    *)
(***************************************************************************)
Undefined == [t |-> "undefined", v |-> <<>>]
Str(s) == [t |-> "string", v |-> s]
Num(s) == [t |-> "number", v |-> s]

\* JS truthiness, as tested by `!x`
Truthy(x) ==
  CASE x.t = "undefined" -> FALSE
    [] x.t = "string" -> x.v # <<>>
    [] x.t = "number" -> x.v # <<"0">>

\* `${x}` inside a template literal
ToText(x) ==
  CASE x.t = "undefined" -> <<"undefined">>
    [] x.t = "string" -> x.v
    [] x.t = "number" -> x.v

Includes(s, tok) == \E i \in 1..Len(s) : s[i] = tok

RECURSIVE Flatten(_)
Flatten(ss) == IF ss = <<>> THEN <<>> ELSE Head(ss) \o Flatten(Tail(ss))

(***************************************************************************)
(* toSlug: lower-case, whitespace runs to one '-', drop what is left       *)
(* outside a-z 0-9 '-'.                                                    *)
(***************************************************************************)
Upper == {"A", "B"}
Whitespace == {" ", "\t"}
SlugSafe == {"a", "b", "1", "-"}

toLowerCase(c) == CASE c = "A" -> "a" [] c = "B" -> "b" [] OTHER -> c

\* a variant of ReplaceWhitespaceRuns for /\s/g: one '-' per whitespace character
ReplaceWhitespaceEach(s) == [i \in 1..Len(s) |-> IF s[i] \in Whitespace THEN "-" ELSE s[i]]
RECURSIVE ReplaceWhitespaceRuns(_)
ReplaceWhitespaceRuns(s) ==
  IF s = <<>> THEN <<>>
  ELSE IF Head(s) \in Whitespace
       THEN IF Len(s) > 1 /\ s[2] \in Whitespace
            THEN ReplaceWhitespaceRuns(Tail(s))
            ELSE <<"-">> \o ReplaceWhitespaceRuns(Tail(s))
       ELSE <<Head(s)>> \o ReplaceWhitespaceRuns(Tail(s))

toSlug(name) ==
  SelectSeq(ReplaceWhitespaceRuns([i \in 1..Len(name) |-> toLowerCase(name[i])]),
            LAMBDA c : c \in SlugSafe)

\* String.prototype.trim
RECURSIVE TrimLeft(_)
TrimLeft(s) == IF s # <<>> /\ Head(s) \in Whitespace THEN TrimLeft(Tail(s)) ELSE s
RECURSIVE TrimRight(_)
TrimRight(s) ==
  IF s # <<>> /\ s[Len(s)] \in Whitespace THEN TrimRight(SubSeq(s, 1, Len(s) - 1)) ELSE s
Trim(s) == TrimRight(TrimLeft(s))

\* todayStamp(): the ISO date of the current day
todayStamp(day) == <<"2026-11-0", ToString(day)>>

\* a variant of OutputPath that leaves the date out of the file name
OutputPathNoDate(day, slug) == <<"output/">> \o slug \o <<".md">>
BriefPath(slug) == <<"briefs/">> \o slug \o <<".txt">>
OutputPath(day, slug) == <<"output/">> \o todayStamp(day) \o <<"-">> \o slug \o <<".md">>

(***************************************************************************)
(* The remote text-generation service, as seen through                     *)
(* client.messages.create: an answer with text, an answer whose content    *)
(* array is empty, or an error raised by the SDK.                          *)
(***************************************************************************)
Texts == {<<>>, <<"p">>, <<"q">>}

UpstreamErrors ==
  { [status |-> OVERLOADED_STATUS, message |-> <<"529", "Overloaded">>],
    [status |-> OVERLOADED_STATUS, message |-> <<>>],
    [status |-> 500, message |-> <<"500", "Overloaded">>],
    [status |-> BAD_REQUEST, message |-> <<"400", "invalid_request_error">>] }

Outcomes ==
  [k : {"ok"}, text : Texts, status : {0}, message : {<<>>}]
    \cup [k : {"empty"}, text : {<<>>}, status : {0}, message : {<<>>}]
    \cup {[k |-> "err", text |-> <<>>, status |-> e.status, message |-> e.message] :
            e \in UpstreamErrors}

\* Error objects.  origin is the upstream call that raised the object (0: made
\* by the program itself), so that two equal-looking errors stay two objects.
NoError == [status |-> 0, message |-> <<>>, origin |-> 0]
ErrorOf(o, callno) == [status |-> o.status, message |-> o.message, origin |-> callno]
TypeErrorAt(callno) ==
  [status |-> 0, message |-> <<"Cannot read properties of undefined">>, origin |-> callno]
CapacityMessage ==
  <<"The AI service is temporarily at capacity. Please wait a minute and try again.">>
ServiceUnavailable == [status |-> 0, message |-> CapacityMessage, origin |-> 0]
FsError == [status |-> 0, message |-> <<"EACCES: permission denied">>, origin |-> 0]

Returned(val) == [ok |-> TRUE, val |-> val, err |-> NoError]
Threw(err) == [ok |-> FALSE, val |-> Undefined, err |-> err]

\* `const message = await client.messages.create(...); message.content[0].text`
\* as written in analyzeBrief, expandPainPoints and buildStrategy
SdkResult(o, callno) ==
  CASE o.k = "ok" -> Returned(Str(o.text))
    [] o.k = "empty" -> Threw(TypeErrorAt(callno))
    [] o.k = "err" -> Threw(ErrorOf(o, callno))

(***************************************************************************)
(* callClaude (steps/claude-client.js)                                     *)
(***************************************************************************)
\* a variant of isOverloaded that takes every HTTP error for an overload
isOverloadedAnyStatus(err) ==
  \/ err.status # 0
  \/ (err.message # <<>> /\ Includes(err.message, "Overloaded"))
isOverloaded(err) ==
  \/ err.status = OVERLOADED_STATUS
  \/ (err.message # <<>> /\ Includes(err.message, "Overloaded"))

\* a variant of CatchBranch whose retry test is off by one
CatchBranchGivesUp(err, attempt) ==
  IF isOverloaded(err) /\ attempt < APP_RETRIES - 1 THEN "retry"
  ELSE IF isOverloaded(err) THEN "exhausted"
  ELSE "rethrow"

\* a variant of CatchBranch that retries on the overload signal whatever the attempt
CatchBranchAlwaysRetries(err, attempt) ==
  IF isOverloaded(err) THEN "retry" ELSE "rethrow"

\* the catch block: which of its three branches is taken
CatchBranch(err, attempt) ==
  IF isOverloaded(err) /\ attempt < APP_RETRIES THEN "retry"
  ELSE IF isOverloaded(err) THEN "exhausted"
  ELSE "rethrow"

\* a variant of CatchThrows that lets the raw upstream error through
CatchThrowsRaw(branch, err) == err

\* what the catch block throws when it does not retry
CatchThrows(branch, err) == IF branch = "exhausted" THEN ServiceUnavailable ELSE err

IdleCall ==
  [attempt |-> 0, state |-> "idle", log |-> <<>>, sleeps |-> <<>>,
   val |-> Undefined, err |-> NoError]

\* the loop test `attempt <= APP_RETRIES`; leaving the loop returns undefined
LoopTest(c, n) ==
  IF n <= APP_RETRIES
  THEN [c EXCEPT !.attempt = n, !.state = "calling"]
  ELSE [c EXCEPT !.attempt = n, !.state = "returned", !.val = Undefined]

callClaudeEnter == LoopTest(IdleCall, 1)

\* the upstream call of the current attempt settles with outcome o
callClaudeAttempt(c, o, callno) ==
  LET err == IF o.k = "err" THEN ErrorOf(o, callno) ELSE TypeErrorAt(callno)
      branch == CatchBranch(err, c.attempt)
      seen == [c EXCEPT !.log = Append(@, o)]
  IN IF o.k = "ok"
     THEN [seen EXCEPT !.state = "returned", !.val = Str(o.text)]
     ELSE IF branch = "retry"
          THEN [seen EXCEPT !.state = "sleeping", !.sleeps = Append(@, RETRY_DELAY_MS)]
          ELSE [seen EXCEPT !.state = "threw", !.err = CatchThrows(branch, err)]

\* the retry delay has passed: attempt++ and the loop test
callClaudeWake(c) == LoopTest(c, c.attempt + 1)

(***************************************************************************)
(* Stage functions: the request each sends upstream.  sections lists the   *)
(* blocks its prompt template holds, in order; via tells how the request   *)
(* reaches the service.                                                    *)
(***************************************************************************)
GuidelinesSection(g) == IF Truthy(g) THEN <<"guidelines">> ELSE <<>>
GuidelinesText(g) == IF Truthy(g) THEN ToText(g) ELSE <<>>

analyzeBrief(brief, brandGuidelines) ==
  [stage |-> 1, via |-> "sdk", model |-> "claude-sonnet-4-20250514", max_tokens |-> 2048,
   sections |-> <<"brief">> \o GuidelinesSection(brandGuidelines),
   brief |-> ToText(brief), analysis |-> <<>>, painPoints |-> <<>>, copy |-> <<>>,
   guidelines |-> GuidelinesText(brandGuidelines)]

\* a variant of expandPainPoints whose template repeats the brief for the analysis
expandPainPointsBriefOnly(brief, analysis, brandGuidelines) ==
  [stage |-> 2, via |-> "sdk", model |-> "claude-sonnet-4-5-20250929", max_tokens |-> 4096,
   sections |-> <<"brief", "analysis">> \o GuidelinesSection(brandGuidelines),
   brief |-> ToText(brief), analysis |-> ToText(brief), painPoints |-> <<>>,
   copy |-> <<>>, guidelines |-> GuidelinesText(brandGuidelines)]

expandPainPoints(brief, analysis, brandGuidelines) ==
  [stage |-> 2, via |-> "sdk", model |-> "claude-sonnet-4-5-20250929", max_tokens |-> 4096,
   sections |-> <<"brief", "analysis">> \o GuidelinesSection(brandGuidelines),
   brief |-> ToText(brief), analysis |-> ToText(analysis), painPoints |-> <<>>,
   copy |-> <<>>, guidelines |-> GuidelinesText(brandGuidelines)]

generateCopy(brief, analysis, painPoints, brandGuidelines) ==
  [stage |-> 3, via |-> "callClaude", model |-> "claude-sonnet-4-20250514",
   max_tokens |-> 4096,
   sections |-> <<"brief", "analysis", "painPoints">> \o GuidelinesSection(brandGuidelines),
   brief |-> ToText(brief), analysis |-> ToText(analysis),
   painPoints |-> ToText(painPoints), copy |-> <<>>,
   guidelines |-> GuidelinesText(brandGuidelines)]

buildStrategy(brief, analysis, painPoints, copy, brandGuidelines) ==
  [stage |-> 4, via |-> "sdk", model |-> "claude-sonnet-4-5-20250929", max_tokens |-> 4096,
   sections |-> <<"brief", "analysis", "painPoints", "copy">>
                  \o GuidelinesSection(brandGuidelines),
   brief |-> ToText(brief), analysis |-> ToText(analysis),
   painPoints |-> ToText(painPoints), copy |-> ToText(copy),
   guidelines |-> GuidelinesText(brandGuidelines)]

(***************************************************************************)
(* Messages on the response stream                                         *)
(***************************************************************************)
StepStart(i, label) == [event |-> "step:start", step |-> i, label |-> label, data |-> <<>>]
StepDone(i, label, output) ==
  [event |-> "step:done", step |-> i, label |-> label, data |-> <<output>>]
Paused(analysis, painPoints) ==
  [event |-> "pipeline:paused", step |-> 0, label |-> "", data |-> <<analysis, painPoints>>]
PipelineDone(outputPath) ==
  [event |-> "pipeline:done", step |-> 0, label |-> "", data |-> <<Str(outputPath)>>]
PipelineError(err) ==
  [event |-> "pipeline:error", step |-> 0, label |-> "", data |-> <<Str(err.message)>>]
Heartbeat == [event |-> ": heartbeat", step |-> 0, label |-> "", data |-> <<>>]

(***************************************************************************)
(* Inputs                                                                  *)
(***************************************************************************)
ClientNameValues ==
  {Undefined, Str(<<>>), Str(<<"A", " ", "b", "!">>), Str(<<"B", " ", "\t", "1", ".">>),
   Num(<<"7">>)}
BriefValues == {Undefined, Str(<<>>), Str(<<"brief">>)}
AnalysisValues == {Undefined, Str(<<>>), Str(<<"a">>)}
PainPointValues == {Undefined, Str(<<>>), Str(<<"e">>)}
GuidelineValues == {Undefined, Str(<<"g">>)}

NoBody ==
  [clientName |-> Undefined, brief |-> Undefined, analysis |-> Undefined,
   painPoints |-> Undefined, brandGuidelines |-> Undefined]
StartBodies ==
  [clientName : ClientNameValues, brief : BriefValues, analysis : {Undefined},
   painPoints : {Undefined}, brandGuidelines : GuidelineValues]
ResumeBodies ==
  [clientName : ClientNameValues, brief : BriefValues, analysis : AnalysisValues,
   painPoints : PainPointValues, brandGuidelines : GuidelineValues]
\* what the operator types at the CLI prompt
CliAnswers == {<<>>, <<" ">>, <<" ", "A", " ", "b", "!">>, <<"b">>}

\* the file system: path -> content
NoFiles == [p \in {} |-> Undefined]
WriteFile(fs, path, content) ==
  [p \in DOMAIN fs \cup {path} |-> IF p = path THEN content ELSE fs[p]]
\* briefs/ is empty, or the operator has dropped a brief for "A b!" there
InitialFiles == {NoFiles, WriteFile(NoFiles, BriefPath(<<"a", "-", "b">>), Str(<<"dropped">>))}

NoContext ==
  [analysis |-> Undefined, painPoints |-> Undefined, copy |-> Undefined,
   strategy |-> Undefined]

(***************************************************************************)
(* State                                                                   *)
(***************************************************************************)
VARIABLES
  pc,       \* where the run's handler stands
  kind,     \* "none", "start", "resume" or "cli"
  req,      \* the request body (CLI: the client name typed and the brief read)
  ctx,      \* the handler's locals analysis, painPoints, copy, strategy
  done,     \* stages whose function has returned in this run
  calls,    \* the requests sent upstream so far, in order
  inflight, \* numbers (indexes into calls) of the upstream calls not yet settled
  cc,       \* the callClaude invocation of stage 3
  sent,     \* the events handed to sendEvent, in order
  stream,   \* what was written to the open connection, heartbeats included
  status,   \* "none", "json", "sse", "ended"; CLI: "running", "exited"
  code,     \* HTTP status code, or the CLI's exit code; -1 while there is none
  reply,    \* the error text of a JSON reply
  closed,   \* the response's 'close' event has fired
  timer,    \* the heartbeat interval is armed
  writes,   \* the files this run wrote, in order, each with the day of the write
  files,    \* the file system
  today     \* the current day

vars ==
  <<pc, kind, req, ctx, done, calls, inflight, cc, sent, stream, status, code, reply,
    closed, timer, writes, files, today>>

Init ==
  /\ pc = [r \in Runs |-> "idle"]
  /\ kind = [r \in Runs |-> "none"]
  /\ req = [r \in Runs |-> NoBody]
  /\ ctx = [r \in Runs |-> NoContext]
  /\ done = [r \in Runs |-> {}]
  /\ calls = [r \in Runs |-> <<>>]
  /\ inflight = [r \in Runs |-> {}]
  /\ cc = [r \in Runs |-> IdleCall]
  /\ sent = [r \in Runs |-> <<>>]
  /\ stream = [r \in Runs |-> <<>>]
  /\ status = [r \in Runs |-> "none"]
  /\ code = [r \in Runs |-> -1]
  /\ reply = [r \in Runs |-> Undefined]
  /\ closed = [r \in Runs |-> FALSE]
  /\ timer = [r \in Runs |-> FALSE]
  /\ writes = [r \in Runs |-> <<>>]
  /\ files \in InitialFiles
  /\ today = 1

\* sendEvent: res.write on a connection that has closed is dropped
\* a variant of Persists that saves whatever is at hand, as from a finally block
PersistsAnyway(stageOk, fsOk) == fsOk
\* mkdirSync/writeFileSync of the final document stand in the try block behind
\* the await of stage 4: they run only when it did not throw, and may throw
Persists(stageOk, fsOk) == stageOk /\ fsOk

\* a variant of HeartbeatArmed in which the interval is never set
HeartbeatArmedNever(path) == FALSE
\* setInterval(..., 5000) of both handlers: reached unless validation returned
\* the 400 reply first
HeartbeatArmed(path) == path # "reject"

\* a variant of Written in which a closed connection still takes the write
WrittenAnyway(r, evs) == stream[r] \o evs
Written(r, evs) == IF closed[r] THEN stream[r] ELSE stream[r] \o evs

(***************************************************************************)
(* POST /api/run                                                           *)
(***************************************************************************)
\* a variant of RunAccepts that forgets the brief
RunAcceptsNameOnly(body) == Truthy(body.clientName)
RunAccepts(body) == Truthy(body.clientName) /\ Truthy(body.brief)

RunOnEntry == <<StepStart(1, "Analyzing brief...")>>
\* a variant of RunOnAnalysis that forgets to announce stage 2
RunOnAnalysisSilent(analysis) == <<StepDone(1, "Brief Analysis", analysis)>>
RunOnAnalysis(analysis) ==
  <<StepDone(1, "Brief Analysis", analysis),
    StepStart(2, "Expanding pain points in consumer voice...")>>
RunOnPainPoints(analysis, painPoints) ==
  <<StepDone(2, "Pain Points (Consumer Voice)", painPoints), Paused(analysis, painPoints)>>
\* a variant of RunCatch that reports the failure twice
RunCatchTwice(err) == <<PipelineError(err), PipelineError(err)>>
RunCatch(err) == <<PipelineError(err)>>

\* from the handler's entry to its first await.  toSlug and the two fs calls
\* stand before the try block: when one of them throws, the handler's promise
\* rejects and nothing of the rest runs.
RunRequest(r, body) ==
  \E fsOk \in BOOLEAN :
    LET path == IF ~RunAccepts(body) THEN "reject"
                ELSE IF body.clientName.t # "string" \/ ~fsOk THEN "throw"
                ELSE "go"
        slug == toSlug(body.clientName.v)
    IN /\ pc[r] = "idle"
       /\ pc' = [pc EXCEPT ![r] = CASE path = "reject" -> "rejected"
                                    [] path = "throw" -> "crashed"
                                    [] path = "go" -> "stage1"]
       /\ kind' = [kind EXCEPT ![r] = "start"]
       /\ req' = [req EXCEPT ![r] = body]
       /\ status' = [status EXCEPT ![r] = IF path = "reject" THEN "json" ELSE "sse"]
       /\ code' = [code EXCEPT ![r] = IF path = "reject" THEN BAD_REQUEST ELSE 200]
       /\ reply' = [reply EXCEPT ![r] =
            IF path = "reject" THEN Str(<<"clientName and brief are required.">>) ELSE @]
       /\ timer' = [timer EXCEPT ![r] = HeartbeatArmed(path)]
       /\ files' = IF path = "go" THEN WriteFile(files, BriefPath(slug), body.brief)
                   ELSE files
       /\ writes' = [writes EXCEPT ![r] =
            IF path = "go" THEN Append(@, [path |-> BriefPath(slug), content |-> body.brief,
                                   day |-> today])
            ELSE @]
       /\ sent' = [sent EXCEPT ![r] = IF path = "go" THEN @ \o RunOnEntry ELSE @]
       /\ stream' = [stream EXCEPT ![r] = IF path = "go" THEN Written(r, RunOnEntry) ELSE @]
       /\ calls' = [calls EXCEPT ![r] =
            IF path = "go" THEN Append(@, analyzeBrief(body.brief, body.brandGuidelines))
            ELSE @]
       /\ inflight' = [inflight EXCEPT ![r] = IF path = "go" THEN {Len(calls[r]) + 1} ELSE @]
       /\ UNCHANGED <<ctx, done, cc, closed, today>>

\* analyzeBrief settles: lines 85-92, or the catch block and the cleanup
RunStage1Returns(r, o) ==
  LET res == SdkResult(o, Len(calls[r]))
      evs == IF res.ok THEN RunOnAnalysis(res.val) ELSE RunCatch(res.err)
  IN /\ pc[r] = "stage1" /\ kind[r] = "start"
     /\ pc' = [pc EXCEPT ![r] = IF res.ok THEN "stage2" ELSE "ended"]
     /\ ctx' = [ctx EXCEPT ![r].analysis = res.val]
     /\ done' = [done EXCEPT ![r] = IF res.ok THEN @ \cup {1} ELSE @]
     /\ sent' = [sent EXCEPT ![r] = @ \o evs]
     /\ stream' = [stream EXCEPT ![r] = Written(r, evs)]
     /\ calls' = [calls EXCEPT ![r] =
          IF res.ok
          THEN Append(@, expandPainPoints(req[r].brief, res.val, req[r].brandGuidelines))
          ELSE @]
     /\ inflight' = [inflight EXCEPT ![r] = IF res.ok THEN {Len(calls[r]) + 1} ELSE {}]
     /\ timer' = [timer EXCEPT ![r] = IF res.ok THEN @ ELSE FALSE]
     /\ status' = [status EXCEPT ![r] = IF res.ok THEN @ ELSE "ended"]
     /\ UNCHANGED <<kind, req, cc, code, reply, closed, writes, files, today>>

\* expandPainPoints settles: lines 92-105
RunStage2Returns(r, o) ==
  LET res == SdkResult(o, Len(calls[r]))
      evs == IF res.ok THEN RunOnPainPoints(ctx[r].analysis, res.val) ELSE RunCatch(res.err)
  IN /\ pc[r] = "stage2" /\ kind[r] = "start"
     /\ pc' = [pc EXCEPT ![r] = "ended"]
     /\ ctx' = [ctx EXCEPT ![r].painPoints = res.val]
     /\ done' = [done EXCEPT ![r] = IF res.ok THEN @ \cup {2} ELSE @]
     /\ sent' = [sent EXCEPT ![r] = @ \o evs]
     /\ stream' = [stream EXCEPT ![r] = Written(r, evs)]
     /\ inflight' = [inflight EXCEPT ![r] = {}]
     /\ timer' = [timer EXCEPT ![r] = FALSE]
     /\ status' = [status EXCEPT ![r] = "ended"]
     /\ UNCHANGED <<kind, req, calls, cc, code, reply, closed, writes, files, today>>

(***************************************************************************)
(* POST /api/resume                                                        *)
(***************************************************************************)
ResumeAccepts(body) ==
  /\ Truthy(body.clientName) /\ Truthy(body.brief)
  /\ Truthy(body.analysis) /\ Truthy(body.painPoints)

ResumeOnEntry == <<StepStart(3, "Generating ad copy variations...")>>
\* a variant of ResumeOnCopy that announces stage 4 before stage 3's result
ResumeOnCopySwapped(copy) ==
  <<StepStart(4, "Building strategy summary..."), StepDone(3, "Ad Copy Variations", copy)>>
ResumeOnCopy(copy) ==
  <<StepDone(3, "Ad Copy Variations", copy), StepStart(4, "Building strategy summary...")>>
ResumeOnStrategy(strategy) == <<StepDone(4, "Strategy Summary", strategy)>>
\* a variant of ResumeOnSaved that reports the output directory, not the file
ResumeOnSavedDirOnly(outputPath) == <<PipelineDone(<<outputPath[1]>>)>>
ResumeOnSaved(outputPath) == <<PipelineDone(outputPath)>>
ResumeCatch(err) == <<PipelineError(err)>>

\* the template literal finalOutput of server.js, token by token
ServerDocument(clientName, date, strategy, analysis, painPoints, copy) ==
  Flatten(<< <<"# Mad Hat Maven - Campaign Brief", "**Client:** ">>, ToText(clientName),
             <<"**Date:** ">>, date,
             <<"---", "## Strategy Summary">>, ToText(strategy),
             <<"---", "## Brief Analysis">>, ToText(analysis),
             <<"---", "## Pain Points (Consumer Voice)">>, ToText(painPoints),
             <<"---", "## Ad Copy Variations">>, ToText(copy) >>)

\* from the handler's entry to its first await, inside callClaude.  toSlug
\* stands before the try block.
ResumeRequest(r, body) ==
  LET path == IF ~ResumeAccepts(body) THEN "reject"
              ELSE IF body.clientName.t # "string" THEN "throw"
              ELSE "go"
  IN /\ pc[r] = "idle"
     /\ callClaudeEnter.state = "calling"
     /\ pc' = [pc EXCEPT ![r] = CASE path = "reject" -> "rejected"
                                  [] path = "throw" -> "crashed"
                                  [] path = "go" -> "stage3"]
     /\ kind' = [kind EXCEPT ![r] = "resume"]
     /\ req' = [req EXCEPT ![r] = body]
     /\ status' = [status EXCEPT ![r] = IF path = "reject" THEN "json" ELSE "sse"]
     /\ code' = [code EXCEPT ![r] = IF path = "reject" THEN BAD_REQUEST ELSE 200]
     /\ reply' = [reply EXCEPT ![r] =
          IF path = "reject" THEN Str(<<"Missing required context to resume pipeline.">>)
          ELSE @]
     /\ timer' = [timer EXCEPT ![r] = HeartbeatArmed(path)]
     /\ ctx' = [ctx EXCEPT ![r] =
          IF path = "go" THEN [@ EXCEPT !.analysis = body.analysis,
                                        !.painPoints = body.painPoints]
          ELSE @]
     /\ sent' = [sent EXCEPT ![r] = IF path = "go" THEN @ \o ResumeOnEntry ELSE @]
     /\ stream' = [stream EXCEPT ![r] = IF path = "go" THEN Written(r, ResumeOnEntry) ELSE @]
     /\ cc' = [cc EXCEPT ![r] = IF path = "go" THEN callClaudeEnter ELSE @]
     /\ calls' = [calls EXCEPT ![r] =
          IF path = "go"
          THEN Append(@, generateCopy(body.brief, body.analysis, body.painPoints,
                                      body.brandGuidelines))
          ELSE @]
     /\ inflight' = [inflight EXCEPT ![r] = IF path = "go" THEN {Len(calls[r]) + 1} ELSE @]
     /\ UNCHANGED <<done, closed, writes, files, today>>

\* a variant of ResumeBrief that reads the brief back from the client's brief
\* file, as the CLI does, when there is one
ResumeBriefFromFile(r) ==
  LET briefPath == BriefPath(toSlug(req[r].clientName.v))
  IN IF briefPath \in DOMAIN files THEN files[briefPath] ELSE req[r].brief
\* a variant of ResumeAnalysis that keeps the analysis in one slot of the
\* module, which the first Resume run at work owns
ResumeAnalysisShared(r) ==
  ctx[CHOOSE x \in DOMAIN ctx : kind[x] = "resume" /\ pc[x] \in {"stage3", "stage4"}].analysis
\* brief and analysis are constants of the handler invocation, destructured
\* from the request body at line 113
ResumeBrief(r) == req[r].brief
ResumeAnalysis(r) == ctx[r].analysis

\* what follows in the handler once callClaude, and with it generateCopy, has
\* settled in state c: lines 138-145, or the catch block and the cleanup
ResumeAfterCopy(r, c) ==
  LET ok == c.state = "returned"
      evs == IF ok THEN ResumeOnCopy(c.val) ELSE ResumeCatch(c.err)
  IN /\ pc' = [pc EXCEPT ![r] = IF ok THEN "stage4" ELSE "ended"]
     /\ ctx' = [ctx EXCEPT ![r].copy = c.val]
     /\ done' = [done EXCEPT ![r] = IF ok THEN @ \cup {3} ELSE @]
     /\ sent' = [sent EXCEPT ![r] = @ \o evs]
     /\ stream' = [stream EXCEPT ![r] = Written(r, evs)]
     /\ calls' = [calls EXCEPT ![r] =
          IF ok
          THEN Append(@, buildStrategy(ResumeBrief(r), ResumeAnalysis(r), ctx[r].painPoints,
                                       c.val, req[r].brandGuidelines))
          ELSE @]
     /\ inflight' = [inflight EXCEPT ![r] = IF ok THEN {Len(calls[r]) + 1} ELSE {}]
     /\ timer' = [timer EXCEPT ![r] = IF ok THEN @ ELSE FALSE]
     /\ status' = [status EXCEPT ![r] = IF ok THEN @ ELSE "ended"]

\* the upstream call of callClaude's current attempt settles
ResumeStage3Attempt(r, o) ==
  LET c == callClaudeAttempt(cc[r], o, Len(calls[r]))
  IN /\ pc[r] = "stage3" /\ kind[r] = "resume" /\ cc[r].state = "calling"
     /\ cc' = [cc EXCEPT ![r] = c]
     /\ IF c.state = "sleeping"
        THEN /\ inflight' = [inflight EXCEPT ![r] = {}]
             /\ UNCHANGED <<pc, ctx, done, sent, stream, calls, timer, status>>
        ELSE ResumeAfterCopy(r, c)
     /\ UNCHANGED <<kind, req, code, reply, closed, writes, files, today>>

\* callClaude's retry delay has passed
ResumeRetryWake(r) ==
  LET c == callClaudeWake(cc[r])
  IN /\ pc[r] = "stage3" /\ kind[r] = "resume" /\ cc[r].state = "sleeping"
     /\ cc' = [cc EXCEPT ![r] = c]
     /\ IF c.state = "calling"
        THEN /\ calls' = [calls EXCEPT ![r] = Append(@, @[Len(@)])]
             /\ inflight' = [inflight EXCEPT ![r] = {Len(calls[r]) + 1}]
             /\ UNCHANGED <<pc, ctx, done, sent, stream, timer, status>>
        ELSE ResumeAfterCopy(r, c)
     /\ UNCHANGED <<kind, req, code, reply, closed, writes, files, today>>

\* buildStrategy settles: lines 145-191
ResumeStage4Returns(r, o) ==
  \E fsOk \in BOOLEAN :
    LET res == SdkResult(o, Len(calls[r]))
        slug == toSlug(req[r].clientName.v)
        outputPath == OutputPath(today, slug)
        finalOutput == Str(ServerDocument(req[r].clientName, todayStamp(today), res.val,
                                          ctx[r].analysis, ctx[r].painPoints, ctx[r].copy))
        saved == Persists(res.ok, fsOk)
        evs == IF ~res.ok THEN ResumeCatch(res.err)
               ELSE ResumeOnStrategy(res.val)
                      \o (IF fsOk THEN ResumeOnSaved(outputPath) ELSE ResumeCatch(FsError))
    IN /\ pc[r] = "stage4" /\ kind[r] = "resume"
       /\ pc' = [pc EXCEPT ![r] = "ended"]
       /\ ctx' = [ctx EXCEPT ![r].strategy = res.val]
       /\ done' = [done EXCEPT ![r] = IF res.ok THEN @ \cup {4} ELSE @]
       /\ files' = IF saved THEN WriteFile(files, outputPath, finalOutput) ELSE files
       /\ writes' = [writes EXCEPT ![r] =
            IF saved
            THEN Append(@, [path |-> outputPath, content |-> finalOutput, day |-> today])
            ELSE @]
       /\ sent' = [sent EXCEPT ![r] = @ \o evs]
       /\ stream' = [stream EXCEPT ![r] = Written(r, evs)]
       /\ inflight' = [inflight EXCEPT ![r] = {}]
       /\ timer' = [timer EXCEPT ![r] = FALSE]
       /\ status' = [status EXCEPT ![r] = "ended"]
       /\ UNCHANGED <<kind, req, calls, cc, code, reply, closed, today>>

(***************************************************************************)
(* The CLI: main() of index.js.  It has no response stream; a run ends     *)
(* with the process's exit code.                                           *)
(***************************************************************************)
\* a variant of CliDocument that uses the server's template
CliDocumentAsServer(clientName, date, analysis, painPoints, copy, strategy) ==
  ServerDocument(clientName, date, strategy, analysis, painPoints, copy)
\* the template literal finalOutput of index.js, token by token
CliDocument(clientName, date, analysis, painPoints, copy, strategy) ==
  Flatten(<< <<"# Mad Hat Maven - Campaign Brief", "**Client:** ">>, ToText(clientName),
             <<"**Date:** ">>, date,
             <<"---", "## Step 1: Brief Analysis">>, ToText(analysis),
             <<"---", "## Step 2: Pain Points (Consumer Voice)">>, ToText(painPoints),
             <<"---", "## Step 3: Ad Copy Variations">>, ToText(copy),
             <<"---", "## Step 4: Strategy Summary">>, ToText(strategy) >>)

\* process.exit(1), from main's own checks or from main().catch
CliExit(r, exitCode) ==
  /\ pc' = [pc EXCEPT ![r] = "ended"]
  /\ status' = [status EXCEPT ![r] = "exited"]
  /\ code' = [code EXCEPT ![r] = exitCode]
  /\ inflight' = [inflight EXCEPT ![r] = {}]

\* from the answer to the prompt to the first await: lines 49-70
CliMain(r, answer) ==
  LET clientName == Trim(answer)
      slug == toSlug(clientName)
      briefPath == BriefPath(slug)
      found == clientName # <<>> /\ briefPath \in DOMAIN files
      brief == IF found THEN files[briefPath] ELSE Undefined
  IN /\ pc[r] = "idle"
     /\ kind' = [kind EXCEPT ![r] = "cli"]
     /\ req' = [req EXCEPT ![r] = [NoBody EXCEPT !.clientName = Str(clientName),
                                                 !.brief = brief]]
     /\ IF found
        THEN /\ pc' = [pc EXCEPT ![r] = "stage1"]
             /\ status' = [status EXCEPT ![r] = "running"]
             /\ calls' = [calls EXCEPT ![r] = Append(@, analyzeBrief(brief, Undefined))]
             /\ inflight' = [inflight EXCEPT ![r] = {Len(calls[r]) + 1}]
             /\ UNCHANGED code
        ELSE /\ CliExit(r, 1)
             /\ UNCHANGED calls
     /\ UNCHANGED <<ctx, done, cc, sent, stream, reply, closed, timer, writes, files, today>>

\* analyzeBrief settles: lines 70-75
CliStage1Returns(r, o) ==
  LET res == SdkResult(o, Len(calls[r]))
  IN /\ pc[r] = "stage1" /\ kind[r] = "cli"
     /\ ctx' = [ctx EXCEPT ![r].analysis = res.val]
     /\ IF res.ok
        THEN /\ pc' = [pc EXCEPT ![r] = "stage2"]
             /\ done' = [done EXCEPT ![r] = @ \cup {1}]
             /\ calls' = [calls EXCEPT ![r] =
                  Append(@, expandPainPoints(req[r].brief, res.val, Undefined))]
             /\ inflight' = [inflight EXCEPT ![r] = {Len(calls[r]) + 1}]
             /\ UNCHANGED <<status, code>>
        ELSE /\ CliExit(r, 1)
             /\ UNCHANGED <<done, calls>>
     /\ UNCHANGED <<kind, req, cc, sent, stream, reply, closed, timer, writes, files, today>>

\* expandPainPoints settles: lines 75-80, up to the first await in callClaude
CliStage2Returns(r, o) ==
  LET res == SdkResult(o, Len(calls[r]))
  IN /\ pc[r] = "stage2" /\ kind[r] = "cli"
     /\ callClaudeEnter.state = "calling"
     /\ ctx' = [ctx EXCEPT ![r].painPoints = res.val]
     /\ IF res.ok
        THEN /\ pc' = [pc EXCEPT ![r] = "stage3"]
             /\ done' = [done EXCEPT ![r] = @ \cup {2}]
             /\ cc' = [cc EXCEPT ![r] = callClaudeEnter]
             /\ calls' = [calls EXCEPT ![r] =
                  Append(@, generateCopy(req[r].brief, ctx[r].analysis, res.val, Undefined))]
             /\ inflight' = [inflight EXCEPT ![r] = {Len(calls[r]) + 1}]
             /\ UNCHANGED <<status, code>>
        ELSE /\ CliExit(r, 1)
             /\ UNCHANGED <<done, cc, calls>>
     /\ UNCHANGED <<kind, req, sent, stream, reply, closed, timer, writes, files, today>>

\* what follows in main once callClaude, and with it generateCopy, has settled
\* in state c: lines 80-85
CliAfterCopy(r, c) ==
  /\ ctx' = [ctx EXCEPT ![r].copy = c.val]
  /\ IF c.state = "returned"
     THEN /\ pc' = [pc EXCEPT ![r] = "stage4"]
          /\ done' = [done EXCEPT ![r] = @ \cup {3}]
          /\ calls' = [calls EXCEPT ![r] =
               Append(@, buildStrategy(req[r].brief, ctx[r].analysis, ctx[r].painPoints,
                                       c.val, Undefined))]
          /\ inflight' = [inflight EXCEPT ![r] = {Len(calls[r]) + 1}]
          /\ UNCHANGED <<status, code>>
     ELSE /\ CliExit(r, 1)
          /\ UNCHANGED <<done, calls>>

CliStage3Attempt(r, o) ==
  LET c == callClaudeAttempt(cc[r], o, Len(calls[r]))
  IN /\ pc[r] = "stage3" /\ kind[r] = "cli" /\ cc[r].state = "calling"
     /\ cc' = [cc EXCEPT ![r] = c]
     /\ IF c.state = "sleeping"
        THEN /\ inflight' = [inflight EXCEPT ![r] = {}]
             /\ UNCHANGED <<pc, ctx, done, calls, status, code>>
        ELSE CliAfterCopy(r, c)
     /\ UNCHANGED <<kind, req, sent, stream, reply, closed, timer, writes, files, today>>

CliRetryWake(r) ==
  LET c == callClaudeWake(cc[r])
  IN /\ pc[r] = "stage3" /\ kind[r] = "cli" /\ cc[r].state = "sleeping"
     /\ cc' = [cc EXCEPT ![r] = c]
     /\ IF c.state = "calling"
        THEN /\ calls' = [calls EXCEPT ![r] = Append(@, @[Len(@)])]
             /\ inflight' = [inflight EXCEPT ![r] = {Len(calls[r]) + 1}]
             /\ UNCHANGED <<pc, ctx, done, status, code>>
        ELSE CliAfterCopy(r, c)
     /\ UNCHANGED <<kind, req, sent, stream, reply, closed, timer, writes, files, today>>

\* buildStrategy settles: lines 85-126, or main().catch
CliStage4Returns(r, o) ==
  \E fsOk \in BOOLEAN :
    LET res == SdkResult(o, Len(calls[r]))
        slug == toSlug(req[r].clientName.v)
        outputPath == OutputPath(today, slug)
        finalOutput == Str(CliDocument(req[r].clientName, todayStamp(today), ctx[r].analysis,
                                       ctx[r].painPoints, ctx[r].copy, res.val))
        saved == Persists(res.ok, fsOk)
    IN /\ pc[r] = "stage4" /\ kind[r] = "cli"
       /\ ctx' = [ctx EXCEPT ![r].strategy = res.val]
       /\ done' = [done EXCEPT ![r] = IF res.ok THEN @ \cup {4} ELSE @]
       /\ files' = IF saved THEN WriteFile(files, outputPath, finalOutput) ELSE files
       /\ writes' = [writes EXCEPT ![r] =
            IF saved
            THEN Append(@, [path |-> outputPath, content |-> finalOutput, day |-> today])
            ELSE @]
       /\ CliExit(r, IF saved THEN 0 ELSE 1)
       /\ UNCHANGED <<kind, req, calls, cc, sent, stream, reply, closed, timer, today>>

(***************************************************************************)
(* The environment of a run: the heartbeat interval, the client, the clock *)
(***************************************************************************)
Beats(r) == Len(SelectSeq(stream[r], LAMBDA m : m = Heartbeat))

\* the setInterval callback: res.write(': heartbeat\n\n')
HeartbeatTick(r) ==
  /\ timer[r]
  /\ Beats(r) < MaxBeats
  /\ stream' = [stream EXCEPT ![r] = Written(r, <<Heartbeat>>)]
  /\ UNCHANGED <<pc, kind, req, ctx, done, calls, inflight, cc, sent, status, code, reply,
                 closed, timer, writes, files, today>>

\* the client goes away: res 'close' fires and its listener clears the interval
ClientClose(r) ==
  /\ status[r] = "sse"
  /\ ~closed[r]
  /\ closed' = [closed EXCEPT ![r] = TRUE]
  /\ timer' = [timer EXCEPT ![r] = FALSE]
  /\ UNCHANGED <<pc, kind, req, ctx, done, calls, inflight, cc, sent, stream, status, code,
                 reply, writes, files, today>>

\* midnight passes
DayTick ==
  /\ today < MaxDay
  /\ today' = today + 1
  /\ UNCHANGED <<pc, kind, req, ctx, done, calls, inflight, cc, sent, stream, status, code,
                 reply, closed, timer, writes, files>>

Next ==
  \/ \E r \in Runs, body \in StartBodies : RunRequest(r, body)
  \/ \E r \in Runs, o \in Outcomes : RunStage1Returns(r, o)
  \/ \E r \in Runs, o \in Outcomes : RunStage2Returns(r, o)
  \/ \E r \in Runs, body \in ResumeBodies : ResumeRequest(r, body)
  \/ \E r \in Runs, o \in Outcomes : ResumeStage3Attempt(r, o)
  \/ \E r \in Runs : ResumeRetryWake(r)
  \/ \E r \in Runs, o \in Outcomes : ResumeStage4Returns(r, o)
  \/ \E r \in Runs, answer \in CliAnswers : CliMain(r, answer)
  \/ \E r \in Runs, o \in Outcomes : CliStage1Returns(r, o)
  \/ \E r \in Runs, o \in Outcomes : CliStage2Returns(r, o)
  \/ \E r \in Runs, o \in Outcomes : CliStage3Attempt(r, o)
  \/ \E r \in Runs : CliRetryWake(r)
  \/ \E r \in Runs, o \in Outcomes : CliStage4Returns(r, o)
  \/ \E r \in Runs : HeartbeatTick(r)
  \/ \E r \in Runs : ClientClose(r)
  \/ DayTick

Spec == Init /\ [][Next]_vars

(***************************************************************************)
(* Two requests in one server process.  The handlers keep everything in    *)
(* locals of the invocation; what two runs share is the file system and    *)
(* the clock.  The inputs are narrowed to accepted requests of three       *)
(* clients, two of whose names have one slug, to upstream outcomes that    *)
(* succeed, fail for good, or fail with the overload signal; keep-alives   *)
(* and disconnects, which touch nothing but the stream and the interval of *)
(* their own run, are left aside.                                          *)
(***************************************************************************)
Pair == {1, 2}

PairStartBodies ==
  { [NoBody EXCEPT !.clientName = Str(<<"A", " ", "b", "!">>), !.brief = Str(<<"brief">>)],
    [NoBody EXCEPT !.clientName = Str(<<"a", "-", "b">>), !.brief = Str(<<"brief2">>),
                   !.brandGuidelines = Str(<<"g">>)],
    [NoBody EXCEPT !.clientName = Str(<<"b">>), !.brief = Str(<<"brief">>)] }

PairResumeBodies ==
  { [NoBody EXCEPT !.clientName = Str(<<"A", " ", "b", "!">>), !.brief = Str(<<"brief">>),
                   !.analysis = Str(<<"a">>), !.painPoints = Str(<<"e">>)],
    [NoBody EXCEPT !.clientName = Str(<<"a", "-", "b">>), !.brief = Str(<<"brief2">>),
                   !.analysis = Str(<<"a2">>), !.painPoints = Str(<<"e2">>),
                   !.brandGuidelines = Str(<<"g">>)],
    [NoBody EXCEPT !.clientName = Str(<<"b">>), !.brief = Str(<<"brief">>),
                   !.analysis = Str(<<"a">>), !.painPoints = Str(<<"e">>)] }

PairOutcomes ==
  { o \in Outcomes :
      \/ o.k = "ok" /\ o.text # <<>>
      \/ o.k = "err" /\ o.message \in {<<"529", "Overloaded">>, <<"400", "invalid_request_error">>} }

PairInit ==
  /\ pc = [r \in Pair |-> "idle"]
  /\ kind = [r \in Pair |-> "none"]
  /\ req = [r \in Pair |-> NoBody]
  /\ ctx = [r \in Pair |-> NoContext]
  /\ done = [r \in Pair |-> {}]
  /\ calls = [r \in Pair |-> <<>>]
  /\ inflight = [r \in Pair |-> {}]
  /\ cc = [r \in Pair |-> IdleCall]
  /\ sent = [r \in Pair |-> <<>>]
  /\ stream = [r \in Pair |-> <<>>]
  /\ status = [r \in Pair |-> "none"]
  /\ code = [r \in Pair |-> -1]
  /\ reply = [r \in Pair |-> Undefined]
  /\ closed = [r \in Pair |-> FALSE]
  /\ timer = [r \in Pair |-> FALSE]
  /\ writes = [r \in Pair |-> <<>>]
  /\ files = NoFiles
  /\ today = 1

PairNext ==
  \/ \E r \in Pair, body \in PairStartBodies : RunRequest(r, body)
  \/ \E r \in Pair, o \in PairOutcomes : RunStage1Returns(r, o)
  \/ \E r \in Pair, o \in PairOutcomes : RunStage2Returns(r, o)
  \/ \E r \in Pair, body \in PairResumeBodies : ResumeRequest(r, body)
  \/ \E r \in Pair, o \in PairOutcomes : ResumeStage3Attempt(r, o)
  \/ \E r \in Pair : ResumeRetryWake(r)
  \/ \E r \in Pair, o \in PairOutcomes : ResumeStage4Returns(r, o)
  \/ DayTick

PairSpec == PairInit /\ [][PairNext]_vars

(***************************************************************************)
(* Progress of callClaude.  An upstream call settles, by an answer, an     *)
(* error or the SDK's request timeout, and the timer of a retry pause      *)
(* fires: each is a step that happens once it stays possible.              *)
(***************************************************************************)
FairSpec ==
  /\ Spec
  /\ \A r \in Runs :
       /\ WF_vars(\E o \in Outcomes : ResumeStage3Attempt(r, o))
       /\ WF_vars(ResumeRetryWake(r))
       /\ WF_vars(\E o \in Outcomes : CliStage3Attempt(r, o))
       /\ WF_vars(CliRetryWake(r))

(***************************************************************************)
(* Properties                                                              *)
(***************************************************************************)
Tag(m) == <<m.event, m.step>>
Tags(ms) == [i \in 1..Len(ms) |-> Tag(ms[i])]
\* the pipeline events among the messages of a stream
Events(ms) == SelectSeq(ms, LAMBDA m : m # Heartbeat)
IsPrefix(a, b) == Len(a) <= Len(b) /\ SubSeq(b, 1, Len(a)) = a
Failed == <<"pipeline:error", 0>>

RunOrder ==
  << <<"step:start", 1>>, <<"step:done", 1>>, <<"step:start", 2>>, <<"step:done", 2>>,
     <<"pipeline:paused", 0>> >>
ResumeOrder ==
  << <<"step:start", 3>>, <<"step:done", 3>>, <<"step:start", 4>>, <<"step:done", 4>>,
     <<"pipeline:done", 0>> >>

\* ts is order, or a proper prefix of order closed by one failed event
CutShort(ts, order) ==
  \/ IsPrefix(ts, order)
  \/ /\ ts # <<>> /\ ts[Len(ts)] = Failed
     /\ Len(ts) - 1 < Len(order)
     /\ IsPrefix(SubSeq(ts, 1, Len(ts) - 1), order)

\* C1, as claimed: every Start request with non-empty clientName and brief
\* whose stream has ended has put exactly started(1), completed(1),
\* started(2), completed(2), paused on the stream.
C1_EveryStartPauses ==
  \A r \in Runs :
    (kind[r] = "start" /\ RunAccepts(req[r]) /\ status[r] = "ended")
      => Tags(Events(stream[r])) = RunOrder

\* C1, amended: the events a Start run emits are started(1), completed(1),
\* started(2), completed(2), paused in that order, cut short only by a failing
\* step, which one failed event closes; the stream holds a prefix of them; it
\* holds exactly the five once both stage calls have succeeded with the client
\* still connected; completed(2) never comes without an earlier started(2).
C1_StartOrder ==
  \A r \in Runs :
    kind[r] = "start" =>
      /\ CutShort(Tags(sent[r]), RunOrder)
      /\ IsPrefix(Events(stream[r]), sent[r])
      /\ (done[r] = {1, 2} /\ ~closed[r]) => Tags(Events(stream[r])) = RunOrder
      /\ \A i \in 1..Len(sent[r]) :
           Tag(sent[r][i]) = <<"step:done", 2>>
             => \E j \in 1..(i - 1) : Tag(sent[r][j]) = <<"step:start", 2>>

C1_Witness ==
  \E r \in Runs :
    /\ kind[r] = "start" /\ status[r] = "ended" /\ done[r] = {1, 2}
    /\ Tags(Events(stream[r])) = RunOrder
    /\ Len(stream[r]) > Len(RunOrder)

\* C2, as claimed: every Resume request with non-empty clientName, brief,
\* analysis and painPoints whose stream has ended has put exactly started(3),
\* completed(3), started(4), completed(4), done on the stream.
C2_EveryResumeCompletes ==
  \A r \in Runs :
    (kind[r] = "resume" /\ ResumeAccepts(req[r]) /\ status[r] = "ended")
      => Tags(Events(stream[r])) = ResumeOrder

\* C2, amended: the events a Resume run emits are started(3), completed(3),
\* started(4), completed(4), done in that order, cut short only by a failing
\* step (a stage call, or saving the document), which one failed event closes;
\* the stream holds a prefix of them; it holds exactly the five once both
\* stage calls have succeeded and the document is saved with the client still
\* connected.
C2_ResumeOrder ==
  \A r \in Runs :
    kind[r] = "resume" =>
      /\ CutShort(Tags(sent[r]), ResumeOrder)
      /\ IsPrefix(Events(stream[r]), sent[r])
      /\ (done[r] = {3, 4} /\ writes[r] # <<>> /\ ~closed[r])
           => Tags(Events(stream[r])) = ResumeOrder

C2_Witness ==
  \E r \in Runs :
    /\ kind[r] = "resume" /\ status[r] = "ended" /\ done[r] = {3, 4}
    /\ Tags(Events(stream[r])) = ResumeOrder
    /\ Len(cc[r].log) = APP_RETRIES

\* a stage call of the run has failed: a stage was called, has not returned,
\* and nothing of it is pending
StageFailed(r) ==
  /\ kind[r] \in {"start", "resume"}
  /\ inflight[r] = {} /\ cc[r].state # "sleeping"
  /\ \E i \in 1..Len(calls[r]) : calls[r][i].stage \notin done[r]

Terminal(m) == m.event \in {"pipeline:error", "pipeline:done"}

\* C3: a failed or done event is the last event a run emits and the last on its
\* stream; once it is emitted the run has stopped, with no stage call pending
\* and no stage started beyond those announced; a run one of whose stage calls
\* failed has emitted exactly one failed event.
C3_FailedIsLast ==
  \A r \in Runs :
    LET ev == sent[r]
        wire == Events(stream[r])
    IN /\ \A i \in 1..Len(ev) : Terminal(ev[i]) => i = Len(ev)
       /\ \A i \in 1..Len(wire) : Terminal(wire[i]) => i = Len(wire)
       /\ (\E i \in 1..Len(ev) : Terminal(ev[i]))
            => /\ pc[r] = "ended" /\ status[r] = "ended"
               /\ inflight[r] = {} /\ cc[r].state # "sleeping"
       /\ kind[r] \in {"start", "resume"}
            => Cardinality({calls[r][i].stage : i \in 1..Len(calls[r])})
                 = Len(SelectSeq(ev, LAMBDA m : m.event = "step:start"))
       /\ StageFailed(r)
            => /\ Len(SelectSeq(ev, LAMBDA m : m.event = "pipeline:error")) = 1
               /\ Tag(ev[Len(ev)]) = Failed

C3_Witness ==
  \E r \in Runs :
    /\ kind[r] = "resume" /\ StageFailed(r) /\ done[r] = {3}
    /\ Tag(sent[r][Len(sent[r])]) = Failed
    /\ ~closed[r] /\ Tag(stream[r][Len(stream[r])]) = Failed

\* C4, as claimed: a Start or Resume run that passed validation and has nothing
\* left to run (no stage call outstanding, no retry delay pending) has emitted
\* a terminal event and ended the stream.
C4_AcceptedRunsEnd ==
  \A r \in Runs :
    (/\ kind[r] \in {"start", "resume"} /\ status[r] \in {"sse", "ended"}
     /\ inflight[r] = {} /\ cc[r].state # "sleeping")
      => /\ status[r] = "ended"
         /\ sent[r] # <<>>
         /\ sent[r][Len(sent[r])].event
              \in {"pipeline:paused", "pipeline:done", "pipeline:error"}

\* outputs a run has when it calls a stage: those returned in the run, and for
\* Resume the two its request carries
Available(r) == done[r] \cup (IF kind[r] = "resume" THEN {1, 2} ELSE {})

\* C5: in every run at most one upstream call is outstanding; stages are called
\* in order; a stage is called only when every earlier stage's output is at
\* hand; its request carries the brief and exactly those outputs.
C5_SequentialContext ==
  \A r \in Runs :
    /\ Cardinality(inflight[r]) <= 1
    /\ \A i \in 1..Len(calls[r]) :
         LET c == calls[r][i]
         IN /\ \A j \in 1..(c.stage - 1) : j \in Available(r)
            /\ i > 1 => calls[r][i - 1].stage \in {c.stage - 1, c.stage}
            /\ c.brief = ToText(req[r].brief)
            /\ c.sections[1] = "brief"
            /\ c.stage >= 2 => (c.analysis = ToText(ctx[r].analysis) /\ c.sections[2] = "analysis")
            /\ c.stage >= 3
                 => (c.painPoints = ToText(ctx[r].painPoints) /\ c.sections[3] = "painPoints")
            /\ c.stage = 4 => (c.copy = ToText(ctx[r].copy) /\ c.sections[4] = "copy")

C5_Witness ==
  \E r \in Runs :
    /\ kind[r] = "cli" /\ done[r] = Stages /\ Len(calls[r]) = 4
    /\ ctx[r].analysis = Str(<<"p">>) /\ ctx[r].painPoints = Str(<<"q">>)
    /\ ctx[r].copy = Str(<<"p">>)

Empty(x) == x = Undefined \/ x = Str(<<>>)
Invalid(r) ==
  \/ kind[r] = "start" /\ (Empty(req[r].clientName) \/ Empty(req[r].brief))
  \/ kind[r] = "resume"
       /\ (\/ Empty(req[r].clientName) \/ Empty(req[r].brief)
           \/ Empty(req[r].analysis) \/ Empty(req[r].painPoints))

\* C6: a Start request with an empty or missing clientName or brief, and a
\* Resume request with an empty or missing clientName, brief, analysis or
\* painPoints, is answered with a 400 error reply; it made no upstream call,
\* wrote no file, emitted no event or heartbeat and armed no timer.
C6_RejectedBeforeAnyCall ==
  \A r \in Runs :
    Invalid(r) =>
      /\ pc[r] = "rejected" /\ status[r] = "json" /\ code[r] = BAD_REQUEST
      /\ Truthy(reply[r])
      /\ Len(calls[r]) = 0 /\ inflight[r] = {}
      /\ writes[r] = <<>> /\ files \in InitialFiles
      /\ sent[r] = <<>> /\ stream[r] = <<>> /\ ~timer[r]

C6_Witness ==
  \E r \in Runs :
    /\ kind[r] = "resume" /\ pc[r] = "rejected"
    /\ Truthy(req[r].clientName) /\ Truthy(req[r].brief) /\ Truthy(req[r].analysis)
    /\ req[r].painPoints = Undefined

\* the transient signal: status 529, or a message that contains 'Overloaded'
Transient(o) ==
  o.k = "err" /\ (o.status = OVERLOADED_STATUS \/ Includes(o.message, "Overloaded"))
NonTransient(o) ==
  o.k = "err" /\ o.status # OVERLOADED_STATUS /\ ~Includes(o.message, "Overloaded")
\* the upstream calls made for stage 3, that is by callClaude
ClientCalls(r) == Len(SelectSeq(calls[r], LAMBDA c : c.stage = 3))

\* C7: while fewer than APP_RETRIES attempts have been made and all failed
\* with the transient signal, callClaude has thrown nothing and goes on; when
\* attempt APP_RETRIES then succeeds, callClaude returns that attempt's text,
\* which its caller receives as the stage's output.
C7_RetryThenSuccess ==
  \A r \in Runs :
    LET c == cc[r]
        n == Len(c.log)
    IN c.state # "idle" =>
         /\ (n < APP_RETRIES /\ \A i \in 1..n : Transient(c.log[i]))
              => (c.state \in {"calling", "sleeping"} /\ c.err = NoError)
         /\ (/\ n = APP_RETRIES /\ c.log[n].k = "ok"
             /\ \A i \in 1..(n - 1) : Transient(c.log[i]))
              => /\ c.state = "returned" /\ c.err = NoError
                 /\ c.val = Str(c.log[n].text)
                 /\ 3 \in done[r] /\ ctx[r].copy = Str(c.log[n].text)

C7_Witness ==
  \E r \in Runs :
    /\ Len(cc[r].log) = APP_RETRIES
    /\ \A i \in 1..(APP_RETRIES - 1) : Transient(cc[r].log[i])
    /\ cc[r].log[APP_RETRIES].k = "ok" /\ cc[r].log[APP_RETRIES].text = <<"q">>
    /\ cc[r].state = "returned" /\ pc[r] = "stage4"

\* C8: when all APP_RETRIES attempts failed with the transient signal,
\* callClaude has thrown the error with the fixed capacity message, which is
\* not the upstream's message, after exactly APP_RETRIES upstream calls; the
\* run reports that one error (one failed event with that message, or exit
\* code 1), and the capacity error is thrown in no other case.
C8_ExhaustedRetries ==
  \A r \in Runs :
    LET c == cc[r]
        n == Len(c.log)
    IN /\ (n = APP_RETRIES /\ \A i \in 1..n : Transient(c.log[i]))
            => /\ c.state = "threw" /\ c.err.message = CapacityMessage
               /\ \A i \in 1..n : c.err.message # c.log[i].message
               /\ ClientCalls(r) = APP_RETRIES /\ inflight[r] = {}
               /\ kind[r] = "resume"
                    => SelectSeq(sent[r], LAMBDA m : m.event = "pipeline:error")
                         = <<[event |-> "pipeline:error", step |-> 0, label |-> "",
                              data |-> <<Str(CapacityMessage)>>]>>
               /\ kind[r] = "cli" => (status[r] = "exited" /\ code[r] = 1)
       /\ (c.state = "threw" /\ c.err.message = CapacityMessage)
            => (n = APP_RETRIES /\ \A i \in 1..n : Transient(c.log[i]))

C8_Witness ==
  \E r \in Runs :
    /\ kind[r] = "resume" /\ cc[r].state = "threw"
    /\ Len(cc[r].log) = APP_RETRIES
    /\ \A i \in 1..APP_RETRIES : Transient(cc[r].log[i]) /\ cc[r].log[i].message # <<>>
    /\ status[r] = "ended"

\* C9: an attempt that fails with an error that is not the transient signal is
\* callClaude's last: no upstream call follows it, and callClaude has thrown
\* that very error object, status, message and origin unchanged.
C9_PermanentErrorPropagates ==
  \A r \in Runs :
    LET c == cc[r]
        n == Len(c.log)
    IN \A i \in 1..n :
         NonTransient(c.log[i]) =>
           /\ i = n /\ c.state = "threw"
           /\ c.err = [status |-> c.log[i].status, message |-> c.log[i].message,
                       origin |-> Len(calls[r])]
           /\ ClientCalls(r) = n /\ inflight[r] = {}

C9_Witness ==
  \E r \in Runs :
    /\ Len(cc[r].log) = APP_RETRIES
    /\ NonTransient(cc[r].log[APP_RETRIES])
    /\ cc[r].state = "threw" /\ cc[r].err.status = BAD_REQUEST

\* C10, as claimed: every upstream request of every stage goes through
\* callClaude, and no failed event carries the raw message of an overloaded
\* upstream answer.
C10_StagesUseCallClaude ==
  \A r \in Runs :
    /\ \A i \in 1..Len(calls[r]) : calls[r][i].via = "callClaude"
    /\ \A i \in 1..Len(sent[r]) :
         sent[r][i].event = "pipeline:error"
           => sent[r][i].data[1].v
                \notin {e.message : e \in {x \in UpstreamErrors :
                                            x.status = OVERLOADED_STATUS
                                              \/ Includes(x.message, "Overloaded")}}

\* C12, as claimed: the paused event of a Start run carries the run's brief,
\* the stage-1 output (analysis) and the stage-2 output (painPoints), each
\* equal to the value the run used.
C12_PausedCarriesContext ==
  \A r \in Runs :
    \A i \in 1..Len(sent[r]) :
      sent[r][i].event = "pipeline:paused" =>
        LET payload == {sent[r][i].data[j] : j \in 1..Len(sent[r][i].data)}
        IN /\ req[r].brief \in payload
           /\ ctx[r].analysis \in payload
           /\ ctx[r].painPoints \in payload

\* what the paused event does carry: the analysis and the pain points the run
\* used, and nothing else
C12_PausedCarriesOutputs ==
  \A r \in Runs :
    \A i \in 1..Len(sent[r]) :
      sent[r][i].event = "pipeline:paused" =>
        sent[r][i].data = <<ctx[r].analysis, ctx[r].painPoints>>

\* C13: in a Resume run a done event is emitted only once the final document
\* stands at the output path, and it carries that path; when creating the
\* output directory or writing the file fails, nothing is written and the run
\* emits failed in place of done, right after completed(4).
C13_DoneAfterSave ==
  \A r \in Runs :
    kind[r] = "resume" =>
      /\ \A i \in 1..Len(sent[r]) :
           Tag(sent[r][i]) = <<"pipeline:done", 0>> =>
             /\ Len(writes[r]) = 1
             /\ writes[r][1].path[1] = "output/"
             /\ writes[r][1].path \in DOMAIN files
             /\ files[writes[r][1].path] = writes[r][1].content
             /\ sent[r][i].data = <<Str(writes[r][1].path)>>
      /\ (pc[r] = "ended" /\ done[r] = {3, 4} /\ writes[r] = <<>>) =>
           /\ Len(sent[r]) = 5
           /\ Tag(sent[r][4]) = <<"step:done", 4>>
           /\ sent[r][5] = PipelineError(FsError)
           /\ \A i \in 1..Len(sent[r]) : Tag(sent[r][i]) # <<"pipeline:done", 0>>
      /\ (pc[r] = "ended" /\ done[r] = {3, 4} /\ writes[r] # <<>>) =>
           Tag(sent[r][Len(sent[r])]) = <<"pipeline:done", 0>>

C13_Witness ==
  \E r \in Runs :
    /\ kind[r] = "resume" /\ pc[r] = "ended" /\ writes[r] # <<>>
    /\ Tag(sent[r][Len(sent[r])]) = <<"pipeline:done", 0>>
    /\ files[writes[r][1].path] = writes[r][1].content

\* the other case of C13: saving failed after stage 4 succeeded
C13_SaveFailed ==
  \E r \in Runs :
    /\ kind[r] = "resume" /\ pc[r] = "ended" /\ done[r] = {3, 4} /\ writes[r] = <<>>
    /\ Tag(sent[r][Len(sent[r])]) = Failed

C15_HeartbeatWhileWaiting ==
  \A r \in Runs :
    kind[r] \in {"start", "resume"} =>
      /\ (pc[r] \in {"stage1", "stage2", "stage3", "stage4"} /\ ~closed[r]) => timer[r]
      /\ (inflight[r] # {} /\ ~closed[r]) => timer[r]
      /\ \A i \in 1..Len(sent[r]) : sent[r][i].event # Heartbeat.event
      /\ IsPrefix(Events(stream[r]), sent[r])
      /\ ~closed[r] => Events(stream[r]) = sent[r]

\* every write of the interval callback adds one keep-alive and nothing else
C15_TickWritesKeepAlive ==
  [][\A r \in Runs :
       (timer[r] /\ stream'[r] # stream[r] /\ sent'[r] = sent[r])
         => stream'[r] = Append(stream[r], Heartbeat)]_vars

\* a keep-alive stands between two pipeline events of a run that went through
C15_Witness ==
  \E r \in Runs :
    /\ kind[r] \in {"start", "resume"} /\ ~closed[r] /\ pc[r] = "ended"
    /\ Len(sent[r]) = 5
    /\ Events(stream[r]) = sent[r]
    /\ \E i \in 2..(Len(stream[r]) - 1) : stream[r][i] = Heartbeat

\* the slugs the rule of the specification gives for the client names at hand:
\* lower-cased, each run of whitespace one '-', every other character outside
\* a-z, 0-9 and '-' dropped
ExpectedSlug(name) ==
  CASE name = <<"A", " ", "b", "!">> -> <<"a", "-", "b">>
    [] name = <<"B", " ", "\t", "1", ".">> -> <<"b", "-", "1">>
    [] name = <<"a", "-", "b">> -> <<"a", "-", "b">>
    [] name = <<"b">> -> <<"b">>
    [] OTHER -> <<>>

\* the one write of Start run r is the brief, verbatim, at the slug's path
BriefSaved(r) ==
  /\ Len(writes[r]) = 1
  /\ writes[r][1].path = <<"briefs/">> \o ExpectedSlug(req[r].clientName.v) \o <<".txt">>
  /\ writes[r][1].content = req[r].brief
  /\ writes[r][1].path \in DOMAIN files
  /\ files[writes[r][1].path] = req[r].brief

StageOutputs(r) == {ctx[r].analysis, ctx[r].painPoints, ctx[r].copy, ctx[r].strategy}
AllFour(r) == Available(r) = Stages /\ Undefined \notin StageOutputs(r)

\* C20, as claimed: a run has written nothing of its context, brief or stage
\* outputs, to storage unless all four stage outputs of the run exist.
C20_NothingBeforeAllFour ==
  \A r \in Runs : writes[r] # <<>> => AllFour(r)

\* C20, amended: a run writes a stage output to storage only when all four
\* stage outputs of the run exist, and then as the one final document; a
\* Resume or CLI run that fails has written no file; the only other file a run
\* writes is the brief file of a Start run, written before stage 1, which holds
\* the brief and is left behind however the run ends.
C20_NoPartialOutputs ==
  \A r \in Runs :
    /\ \A i \in 1..Len(writes[r]) :
         IF writes[r][i].path[1] = "output/"
         THEN kind[r] \in {"resume", "cli"} /\ AllFour(r) /\ Len(writes[r]) = 1
         ELSE /\ kind[r] = "start" /\ i = 1
              /\ writes[r][i].path[1] = "briefs/"
              /\ writes[r][i].content = req[r].brief
    /\ (kind[r] \in {"resume", "cli"} /\ ~AllFour(r)) => writes[r] = <<>>
    /\ kind[r] = "start" => Len(writes[r]) <= 1

\* a Resume run failed in stage 4, with the copy of stage 3 at hand, and wrote
\* nothing
C20_Witness ==
  \E r \in Runs :
    /\ kind[r] = "resume" /\ pc[r] = "ended" /\ done[r] = {3}
    /\ ctx[r].copy # Undefined
    /\ writes[r] = <<>>

\* a Start run paused and left its brief file
C20_PausedLeavesBrief ==
  \E r \in Runs :
    /\ kind[r] = "start" /\ pc[r] = "ended" /\ done[r] = {1, 2}
    /\ Len(writes[r]) = 1 /\ writes[r][1].path \in DOMAIN files

\* the text of a document's section: what follows its heading up to the next rule
RECURSIVE UpToRule(_)
UpToRule(s) == IF s = <<>> \/ Head(s) = "---" THEN <<>> ELSE <<Head(s)>> \o UpToRule(Tail(s))
SectionOf(doc, heading) ==
  LET i == CHOOSE j \in 1..Len(doc) : doc[j] = heading
  IN UpToRule(SubSeq(doc, i + 1, Len(doc)))

\* C11: every stage call of a Resume run is a call of stage 3 or 4 and carries
\* exactly the brief, analysis, painPoints and brandGuidelines of the Resume
\* request; the final document it writes holds exactly the request's analysis
\* and painPoints; whether or not a Start run of the same client ran, or runs,
\* in the process, and whatever it produced.
C11_ResumeContextFromRequest ==
  \A r \in Pair :
    kind[r] = "resume" =>
      /\ \A i \in 1..Len(calls[r]) :
           /\ calls[r][i].stage \in {3, 4}
           /\ calls[r][i].brief = ToText(req[r].brief)
           /\ calls[r][i].analysis = ToText(req[r].analysis)
           /\ calls[r][i].painPoints = ToText(req[r].painPoints)
           /\ calls[r][i].guidelines = GuidelinesText(req[r].brandGuidelines)
      /\ \A i \in 1..Len(writes[r]) :
           /\ SectionOf(writes[r][i].content.v, "## Brief Analysis") = ToText(req[r].analysis)
           /\ SectionOf(writes[r][i].content.v, "## Pain Points (Consumer Voice)")
                = ToText(req[r].painPoints)

\* a Start run of the same client paused with its own analysis and pain
\* points, and a Resume run with another brief, analysis and pain points
\* called stage 4 and wrote its document
C11_Witness ==
  \E r, s \in Pair :
    /\ kind[s] = "start" /\ done[s] = {1, 2} /\ pc[s] = "ended"
    /\ kind[r] = "resume" /\ Len(calls[r]) >= 2 /\ writes[r] # <<>>
    /\ toSlug(req[s].clientName.v) = toSlug(req[r].clientName.v)
    /\ req[s].brief # req[r].brief
    /\ ctx[s].analysis # req[r].analysis
    /\ ctx[s].painPoints # req[r].painPoints

\* a Resume run went through with no Start run in the process
C11_NoStartBefore ==
  \E r \in Pair :
    /\ kind[r] = "resume" /\ writes[r] # <<>>
    /\ \A s \in Pair : kind[s] # "start"

Other(r) == CHOOSE s \in Pair : s # r

\* the context a stage call of run r must carry: the request's brief and
\* guidelines, and the outputs of the earlier stages as the run holds them
OwnContext(r, c) ==
  /\ c.brief = ToText(req[r].brief)
  /\ c.guidelines = GuidelinesText(req[r].brandGuidelines)
  /\ c.stage >= 2 => c.analysis = ToText(ctx[r].analysis)
  /\ c.stage >= 3 => c.painPoints = ToText(ctx[r].painPoints)
  /\ c.stage >= 4 => c.copy = ToText(ctx[r].copy)

\* C16: with two Start or Resume runs interleaved in any way, two Resume runs
\* with the same context included, every stage call of a run carries that
\* run's request context and that run's earlier outputs; every output an
\* event of the run carries is an output of that run; the document the run
\* writes names the run's client and holds the run's four outputs.
C16_RunsShareNoState ==
  \A r \in Pair :
    /\ \A i \in 1..Len(calls[r]) : OwnContext(r, calls[r][i])
    /\ \A i \in 1..Len(sent[r]) :
         sent[r][i].event \in {"step:done", "pipeline:paused"} =>
           \A j \in 1..Len(sent[r][i].data) : sent[r][i].data[j] \in StageOutputs(r)
    /\ \A i \in 1..Len(writes[r]) :
         writes[r][i].path[1] = "output/" =>
           LET doc == writes[r][i].content.v
           IN /\ SectionOf(doc, "## Strategy Summary") = ToText(ctx[r].strategy)
              /\ SectionOf(doc, "## Brief Analysis") = ToText(ctx[r].analysis)
              /\ SectionOf(doc, "## Pain Points (Consumer Voice)") = ToText(ctx[r].painPoints)
              /\ SectionOf(doc, "## Ad Copy Variations") = ToText(ctx[r].copy)
              /\ \E k \in 1..Len(doc) :
                   /\ doc[k] = "**Client:** "
                   /\ SubSeq(doc, k + 1, k + Len(req[r].clientName.v)) = req[r].clientName.v

\* two Resume runs at once, with different contexts and different outputs,
\* have both called stage 4 and written their documents
C16_Witness ==
  \E r \in Pair :
    /\ kind[r] = "resume" /\ kind[Other(r)] = "resume"
    /\ req[r].analysis # req[Other(r)].analysis
    /\ ctx[r].copy # ctx[Other(r)].copy
    /\ done[r] = {3, 4} /\ done[Other(r)] = {3, 4}
    /\ writes[r] # <<>> /\ writes[Other(r)] # <<>>

\* two Resume runs with identical context went through, with different outputs
C16_SameContextTwice ==
  /\ kind[1] = "resume" /\ kind[2] = "resume"
  /\ req[1] = req[2]
  /\ writes[1] # <<>> /\ writes[2] # <<>>
  /\ ctx[1].strategy # ctx[2].strategy

\* what the runs do share is the file system: two Resume runs of one client on
\* one day name the same path in their done events, and the file there holds
\* the document of the run that wrote last
C16_LastWriteWins ==
  \E r \in Pair :
    /\ writes[r] # <<>> /\ writes[Other(r)] # <<>>
    /\ writes[r][1].path = writes[Other(r)][1].path
    /\ writes[r][1].content # writes[Other(r)][1].content
    /\ files[writes[r][1].path] = writes[Other(r)][1].content
    /\ Tag(sent[r][Len(sent[r])]) = <<"pipeline:done", 0>>

SlugOf(r) == toSlug(req[r].clientName.v)
IsOutput(w) == w.path[1] = "output/"

\* C17, as claimed: two runs whose clientName values differ, or whose dates
\* differ, write their brief file and their final document to different
\* paths.
C17_NamesAndDatesKeepApart ==
  \A r \in Pair :
    \A i \in 1..Len(writes[r]), j \in 1..Len(writes[Other(r)]) :
      LET w == writes[r][i]
          v == writes[Other(r)][j]
      IN (req[r].clientName # req[Other(r)].clientName \/ w.day # v.day)
           => w.path # v.path

\* C17, amended: two runs whose client slugs differ write their brief files
\* and their final documents to different paths; two runs whose dates differ
\* write their final documents to different paths; a brief file and a final
\* document never share a path.  Two runs of one slug share the brief file,
\* whatever the date and the spelling of the client name, and on one day the
\* final document.
C17_SlugsAndDatesKeepApart ==
  \A r \in Pair :
    \A i \in 1..Len(writes[r]), j \in 1..Len(writes[Other(r)]) :
      LET w == writes[r][i]
          v == writes[Other(r)][j]
      IN /\ SlugOf(r) # SlugOf(Other(r)) => w.path # v.path
         /\ (IsOutput(w) /\ IsOutput(v) /\ w.day # v.day) => w.path # v.path
         /\ IsOutput(w) # IsOutput(v) => w.path # v.path
         /\ (SlugOf(r) = SlugOf(Other(r)) /\ ~IsOutput(w) /\ ~IsOutput(v)) => w.path = v.path
         /\ (SlugOf(r) = SlugOf(Other(r)) /\ IsOutput(w) /\ IsOutput(v) /\ w.day = v.day)
              => w.path = v.path

\* two Resume runs of one client wrote their documents on different days, to
\* different paths, and both files stand
C17_Witness ==
  \E r \in Pair :
    /\ writes[r] # <<>> /\ writes[Other(r)] # <<>>
    /\ IsOutput(writes[r][1]) /\ IsOutput(writes[Other(r)][1])
    /\ SlugOf(r) = SlugOf(Other(r))
    /\ writes[r][1].day # writes[Other(r)][1].day
    /\ writes[r][1].path # writes[Other(r)][1].path
    /\ {writes[r][1].path, writes[Other(r)][1].path} \subseteq DOMAIN files

\* two runs of clients with different slugs wrote on one day, to different paths
C17_DifferentSlugs ==
  \E r \in Pair :
    /\ writes[r] # <<>> /\ writes[Other(r)] # <<>>
    /\ SlugOf(r) # SlugOf(Other(r))
    /\ writes[r][1].day = writes[Other(r)][1].day
    /\ IsOutput(writes[r][1]) = IsOutput(writes[Other(r)][1])

\* two Start runs whose client names differ wrote one brief file
C17_NamesCollide ==
  \E r \in Pair :
    /\ kind[r] = "start" /\ kind[Other(r)] = "start"
    /\ req[r].clientName # req[Other(r)].clientName
    /\ writes[r] # <<>> /\ writes[Other(r)] # <<>>
    /\ writes[r][1].path = writes[Other(r)][1].path

\* C19 claims that the waits of callClaude before its retry attempts double
\* from one to the next.  The waits of one call are cc[r].sleeps.
C19_WaitsDouble ==
  \A r \in Runs :
    \A i \in 2..Len(cc[r].sleeps) : cc[r].sleeps[i] = 2 * cc[r].sleeps[i - 1]

\* what the code does: every wait is RETRY_DELAY_MS, and a call waits at most
\* APP_RETRIES - 1 times, that is once
C19_FixedSingleWait ==
  \A r \in Runs :
    /\ Len(cc[r].sleeps) <= APP_RETRIES - 1
    /\ \A i \in 1..Len(cc[r].sleeps) : cc[r].sleeps[i] = RETRY_DELAY_MS

\* the case C19 speaks of, a second wait within one call, in no reachable state
C19_NoSecondWait == \A r \in Runs : Len(cc[r].sleeps) < 2

\* a call that has waited once
C19_OneWait == \E r \in Runs : cc[r].sleeps = <<RETRY_DELAY_MS>> /\ cc[r].attempt = APP_RETRIES

\* the Resume request that replays a paused payload verbatim, with the client
\* name and the brief of the Start run that emitted it
Replay(r, paused) ==
  [NoBody EXCEPT !.clientName = req[r].clientName, !.brief = req[r].brief,
                 !.analysis = paused.data[1], !.painPoints = paused.data[2]]

\* C21, as claimed: every paused event carries a non-empty analysis and
\* non-empty painPoints, and its payload, replayed verbatim into Resume with
\* the same clientName and brief, passes Resume's required-field check.
C21_PausedReplays ==
  \A r \in Runs :
    \A i \in 1..Len(sent[r]) :
      sent[r][i].event = "pipeline:paused" =>
        /\ ~Empty(sent[r][i].data[1])
        /\ ~Empty(sent[r][i].data[2])
        /\ ResumeAccepts(Replay(r, sent[r][i]))

\* what holds: the replay passes the check exactly when neither stage output
\* in the payload is the empty string
C21_ReplayPassesUnlessEmpty ==
  \A r \in Runs :
    \A i \in 1..Len(sent[r]) :
      sent[r][i].event = "pipeline:paused" =>
        (ResumeAccepts(Replay(r, sent[r][i]))
           <=> (sent[r][i].data[1] # Str(<<>>) /\ sent[r][i].data[2] # Str(<<>>)))

\* a Start run paused with an empty analysis in the payload
C21_EmptyAnalysisPaused ==
  \E r \in Runs :
    /\ kind[r] = "start" /\ done[r] = {1, 2}
    /\ sent[r][Len(sent[r])].event = "pipeline:paused"
    /\ sent[r][Len(sent[r])].data[1] = Str(<<>>)

ServerHeadings ==
  <<"## Strategy Summary", "## Brief Analysis", "## Pain Points (Consumer Voice)",
    "## Ad Copy Variations">>
CliHeadings ==
  <<"## Step 1: Brief Analysis", "## Step 2: Pain Points (Consumer Voice)",
    "## Step 3: Ad Copy Variations", "## Step 4: Strategy Summary">>
StrategyHeadings == {"## Strategy Summary", "## Step 4: Strategy Summary"}
IsHeading(tok) ==
  \E i \in 1..4 : tok = ServerHeadings[i] \/ tok = CliHeadings[i]

\* the section headings of a document, in the order of the file
HeadingsOf(doc) == SelectSeq(doc, IsHeading)
\* the client-name/date header stands before the first section
HeaderFirst(doc) ==
  \E c, d, h \in 1..Len(doc) :
    /\ doc[c] = "**Client:** " /\ doc[d] = "**Date:** " /\ IsHeading(doc[h])
    /\ c < d /\ d < h
    /\ \A k \in 1..(h - 1) : ~IsHeading(doc[k])

\* the saved final documents of run r
Documents(r) == SelectSeq(writes[r], IsOutput)

C22_CliStrategyLast ==
  \E r \in Runs :
    /\ kind[r] = "cli" /\ Len(Documents(r)) = 1
    /\ ctx[r].strategy # ctx[r].copy
    /\ HeadingsOf(Documents(r)[1].content.v)[4] = "## Step 4: Strategy Summary"

\* the events that close a run's stream
Closing(m) == m.event \in {"pipeline:paused", "pipeline:done", "pipeline:error"}
\* no keep-alive stands behind a closing event on the stream of run r
NoBeatAfterClosing(r) ==
  \A i, j \in 1..Len(stream[r]) :
    (Closing(stream[r][i]) /\ i < j) => stream[r][j] # Heartbeat
\* run r was accepted and its handler has stopped executing
Stopped(r) == kind[r] \in {"start", "resume"} /\ pc[r] \in {"ended", "crashed"}

\* C23, as claimed: on every exit path of an accepted Start or Resume request
\* the heartbeat interval is cleared before or when the stream ends: no timer
\* stays armed for a run that has stopped executing, and no keep-alive is
\* written after the run's terminal event.
C23_HeartbeatCleared ==
  \A r \in Runs :
    /\ Stopped(r) => ~timer[r]
    /\ NoBeatAfterClosing(r)

\* what holds: a handler that reached its cleanup, through the try block or
\* through the catch block, has cleared the interval and ended the stream, and
\* no keep-alive follows a closing event; the interval of a handler that threw
\* before the try block stays armed until the client disconnects
C23_ClearedAtCleanup ==
  \A r \in Runs :
    kind[r] \in {"start", "resume"} =>
      /\ pc[r] = "ended" => (~timer[r] /\ status[r] = "ended")
      /\ NoBeatAfterClosing(r)
      /\ pc[r] = "crashed" => (timer[r] <=> ~closed[r])

\* a handler threw before its try block and a keep-alive was written afterwards
C23_BeatAfterCrash ==
  \E r \in Runs :
    /\ pc[r] = "crashed" /\ timer[r]
    /\ stream[r] = <<Heartbeat>>

Finished(c) == c.state \in {"returned", "threw"}

\* what C24 says of one call of callClaude, at every moment of the call
BoundedCall(c) ==
  /\ c.state \in {"calling", "sleeping", "returned", "threw"}
  /\ c.attempt \in 1..APP_RETRIES
  /\ Len(c.log) <= APP_RETRIES
  /\ Len(c.log) = (IF c.state = "calling" THEN c.attempt - 1 ELSE c.attempt)
  /\ c.state = "returned" =>
       /\ c.log[Len(c.log)].k = "ok"
       /\ c.val = Str(c.log[Len(c.log)].text)
  /\ c.state = "threw" =>
       /\ c.log[Len(c.log)].k # "ok"
       /\ c.err # NoError
       /\ c.val = Undefined
  /\ Len(c.sleeps) = (IF Finished(c) THEN Len(c.log) - 1 ELSE Len(c.log))
  /\ \A i \in 1..Len(c.sleeps) : Transient(c.log[i]) /\ i < APP_RETRIES

\* C24: whatever the upstream answers, callClaude calls it at most APP_RETRIES
\* times; the call finishes, and when it has, it has returned the text of its
\* last attempt or thrown an error, never left the loop with no value; every
\* pause follows an attempt that failed with the transient signal and is
\* followed by a further attempt.
C24_BoundedAndFinishes ==
  /\ [](\A r \in Runs : cc[r].state # "idle" => BoundedCall(cc[r]))
  /\ \A r \in Runs : (cc[r].state = "calling") ~> Finished(cc[r])
  /\ \A r \in Runs : (cc[r].state = "sleeping") ~> (cc[r].state = "calling")

\* the invariant part of C24 alone
C24_Bounded == \A r \in Runs : cc[r].state # "idle" => BoundedCall(cc[r])

\* a call that used all its attempts: one pause, two upstream calls, finished
C24_Witness ==
  \E r \in Runs :
    /\ Finished(cc[r]) /\ Len(cc[r].log) = APP_RETRIES
    /\ Len(cc[r].sleeps) = 1
    /\ Transient(cc[r].log[1])

====
